---- MODULE Spec2Model ----
(***************************************************************************)
(* Round-based deliberation engine of echoes-of-error: the JSONL event log *)
(* (src/src/utils.py, ExperimentLogger), the resume utilities              *)
(* (src/src/resume_utils.py), the stance statistics and peer sampling      *)
(* (src/src/utils.py), the model call (src/src/llm_client.py) and the      *)
(* round loop that drives them.                                            *)
(*                                                                         *)
(* The log file is a sequence of lines.  A line is the concatenation of    *)
(* one or more written pieces, followed or not by a newline.  A piece is   *)
(* the JSON text of one event, whole or cut short by a crash in the        *)
(* middle of f.write().                                                    *)
(***************************************************************************)
EXTENDS Integers, Sequences, FiniteSets, TLC

VARIABLES
    file_exists,      \* the .jsonl file exists on disk
    log,              \* its content: a sequence of lines
    res,              \* the last operation and what it returned
    crashes,          \* number of interrupted operations so far
    pc,               \* where the engine stands in its round loop
    num_rounds,       \* ExperimentConfig: the round budget
    condition,        \* the experimental condition of the run
    round_number,     \* the round being run
    idx,              \* position of the next agent in the fixed order
    agents,           \* agent id -> [stance, rationale], in memory
    entropy_history,  \* entropy of the rounds run by this process
    last_stats,       \* the distribution last given to the logger
    last_sample,      \* the peer sample last rendered into a context
    round_snapshot,   \* history: agents as they were at round_start
    mem_at_end,       \* history: round -> agents when its round_end was logged
    summary_file,     \* the _summary.json file: absent, partly written or whole
    max_retries,      \* OllamaClient.max_retries
    retry_delay,      \* OllamaClient.retry_delay
    cpc,              \* where generate() stands
    attempt,          \* the loop variable of generate()
    last_error,       \* generate(): the description of the last error
    calls,            \* history: what the backend did on each requests.post
    sleeps,           \* history: the argument of each time.sleep
    result,           \* what generate() returned
    wpc,              \* worker -> where it stands in _write_event
    woffset,          \* worker -> the end of file its write starts from
    response_text,    \* the text _parse_json_response is given
    extracted,        \* what _parse_json_response returned
    sample_call,      \* the arguments sample_peers was last called with
    sample_result,    \* what that call returned
    global_rng,       \* the state of the random module's shared generator
    first_sample,     \* history: the first call of sample_peers and its result
    sample_count,     \* history: how often sample_peers was called
    stance_counts,    \* the distribution calculate_entropy is given
    entropy_value,    \* what calculate_entropy returned or raised
    collapse_call,    \* the arguments calculate_time_to_collapse is given
    collapse_result,  \* what calculate_time_to_collapse returned
    first_collapse    \* history: what its first call returned, and for how many values

log_vars    == <<file_exists, log, res, crashes>>
engine_vars == <<pc, condition, num_rounds, round_number, idx, agents, entropy_history,
                 last_stats, last_sample, round_snapshot, mem_at_end>>
client_vars == <<max_retries, retry_delay, cpc, attempt, last_error, calls, sleeps,
                 result>>
worker_vars == <<wpc, woffset>>
parse_vars  == <<response_text, extracted>>
sample_vars == <<sample_call, sample_result, global_rng, first_sample, sample_count>>
entropy_vars == <<stance_counts, entropy_value>>
collapse_vars == <<collapse_call, collapse_result, first_collapse>>
pure_vars   == <<parse_vars, sample_vars, entropy_vars, collapse_vars>>
other_vars  == <<client_vars, worker_vars, pure_vars>>
vars == <<log_vars, engine_vars, summary_file, other_vars>>

\* ---------------------------------------------------------------- bounds
MaxRound   == 1      \* round numbers 0..MaxRound
MaxLogLen  == 3      \* pieces of text in the log (SpecLog, SpecLogger)
MaxCrashes == 1      \* interrupted writes / faulted truncations
NumAgents  == 3      \* population size of the engine's run
SampleK    == 1      \* peer-sample size k of the engine's run
MaxRetries == 3      \* the largest max_retries a client is built with
MaxHistory == 5      \* entropy values in a history (SpecCollapse)
MaxWindow  == 3      \* the largest consecutive_rounds (SpecCollapse)
MaxCount   == 3      \* the largest count of one stance (SpecEntropy)
MaxSampleCalls == 3  \* calls of sample_peers in a row (SpecSample)
MaxTextLen == 5      \* tokens in a text given to _parse_json_response

Rounds    == 0..MaxRound
NumRounds == MaxRound + 1                 \* the round budget
Stances   == {"PULL_LEVER", "DO_NOT_PULL"}   \* SCENARIO_TROLLEY.stances

\* Agent ids in ascending order of id; the population is the first NumAgents.
AgentIds == <<"a1", "a2", "a3", "a4", "a5">>
Agents   == {AgentIds[i] : i \in 1..NumAgents}
IdRank(a) == CHOOSE i \in 1..Len(AgentIds) : AgentIds[i] = a
\* The agent ids the resume specification passes to log_agent_response.
LogAgents == {"a1", "a2"}

Largest(S)  == CHOOSE x \in S : \A y \in S : y <= x
Smallest(S) == CHOOSE x \in S : \A y \in S : x <= y

\* ---------------------------------------------------------------- events
NoAgent  == ""
NoStance == "None"
NoStats  == [s \in {} |-> 0]

\* One JSON object of the log (utils.py, the dict given to _write_event).
Event(type, round, agent_id, response, stats, entropy) ==
    [type |-> type, round |-> round, agent_id |-> agent_id,
     stance |-> response.stance, rationale |-> response.rationale,
     changed |-> response.changed, change_reason |-> response.change_reason,
     parse_success |-> response.parse_success,
     stats |-> stats, entropy |-> entropy, entropy_history |-> <<>>,
     timestamp |-> "ts"]

NoResponse ==
    [stance |-> NoStance, rationale |-> "", changed |-> FALSE,
     change_reason |-> "", parse_success |-> FALSE]

Response(stance, rationale, changed, reason, ok) ==
    [stance |-> stance, rationale |-> rationale, changed |-> changed,
     change_reason |-> reason, parse_success |-> ok]

\* {**base, **payload} of a dict literal: the keys of the payload, spread
\* last, replace the keys written before them.
Spread(base, payload) ==
    [k \in (DOMAIN base) \cup (DOMAIN payload) |->
        IF k \in DOMAIN payload THEN payload[k] ELSE base[k]]

\* ExperimentLogger.log_round_start
RoundStartEvent(r, stats) == Event("round_start", r, NoAgent, NoResponse, stats, 0)
\* ExperimentLogger.log_agent_response: {"type", "round", "agent_id", **response}
AgentResponseEvent(r, a, response) ==
    Spread(Event("agent_response", r, a, NoResponse, NoStats, 0), response)
\* ExperimentLogger.log_round_end
RoundEndEvent(r, stats, entropy) == Event("round_end", r, NoAgent, NoResponse, stats, entropy)

\* ExperimentLogger.__init__ (resume=False), log_config, log_experiment_end
ExperimentStartEvent == Event("experiment_start", -1, NoAgent, NoResponse, NoStats, 0)
ConfigEvent == Event("config", -1, NoAgent, NoResponse, NoStats, 0)
ExperimentEndEvent(final_distribution, final_entropy, history) ==
    [Event("experiment_end", -1, NoAgent, NoResponse, final_distribution, final_entropy)
        EXCEPT !.entropy_history = history]

\* ---------------------------------------------------------------- file
\* A piece of text written by one f.write(): the JSON of ev, whole or cut.
Piece(ev, whole) == [ev |-> ev, whole |-> whole]
Line(parts, nl)  == [parts |-> parts, nl |-> nl]

\* open(path, 'a'); f.write(text): the text continues the last line when that
\* line has no newline yet, else it starts a new line.
AppendText(f, piece, nl) ==
    IF Len(f) > 0 /\ ~f[Len(f)].nl
    THEN [f EXCEPT ![Len(f)] = Line(@.parts \o <<piece>>, nl)]
    ELSE Append(f, Line(<<piece>>, nl))

\* A faulty variant of _write_event: the file is opened with 'w'.
_write_event_truncating(f, ev) == <<Line(<<Piece(ev, TRUE)>>, TRUE)>>

\* ExperimentLogger._write_event: json.dumps(event) + '\n', appended.
_write_event(f, ev) == AppendText(f, Piece(ev, TRUE), TRUE)

\* json.loads(line) succeeds: the line is the text of exactly one whole object.
JsonLoads(line) == Len(line.parts) = 1 /\ line.parts[1].whole
Data(line) == line.parts[1].ev

\* ------------------------------------------------- resume_utils.py: replay
NoneResult == [is_none |-> TRUE, last_round |-> -1, agent_states |-> <<>>]

\* A faulty variant of RecordResponse: the first response of a (round, agent) pair is kept.
RecordResponseFirstWins(round_responses, data) ==
    LET r   == data.round
        a   == data.agent_id
        old == IF r \in DOMAIN round_responses THEN round_responses[r] ELSE <<>>
        new == [x \in (DOMAIN old) \cup {a} |->
                   IF x \in DOMAIN old THEN old[x]
                   ELSE [stance |-> data.stance, rationale |-> data.rationale]]
    IN  [x \in (DOMAIN round_responses) \cup {r} |->
            IF x = r THEN new ELSE round_responses[x]]

\* round_responses[r_num][a_id] = {"stance": ..., "rationale": ...}
RecordResponse(round_responses, data) ==
    LET r   == data.round
        a   == data.agent_id
        old == IF r \in DOMAIN round_responses THEN round_responses[r] ELSE <<>>
        new == [x \in (DOMAIN old) \cup {a} |->
                   IF x = a THEN [stance |-> data.stance, rationale |-> data.rationale]
                   ELSE old[x]]
    IN  [x \in (DOMAIN round_responses) \cup {r} |->
            IF x = r THEN new ELSE round_responses[x]]

\* The text of a line that is a JSON value but no object (5, null, a list),
\* and that of a round_end object whose round is missing or no number.
NotAnObject == Event("<not an object>", -1, NoAgent, NoResponse, NoStats, 0)
RoundEndWithoutRound ==
    Event("<round_end without round>", -1, NoAgent, NoResponse, NoStats, 0)

\* The body of "for i, line in enumerate(lines)" for one line.
\* A JSON text that is not an object makes data.get raise AttributeError, and
\* a round_end whose round is no number makes r_num > last_complete_round
\* raise TypeError; only the outer "except Exception" catches them: the replay
\* is abandoned.
ReplayLine(st, line, i) ==
    IF ~JsonLoads(line) THEN st                       \* JSONDecodeError: continue
    ELSE LET data == Data(line) IN
         IF data.type \in {"<not an object>", "<round_end without round>"}
         THEN [st EXCEPT !.aborted = TRUE]
         ELSE IF data.type = "agent_response"
         THEN [st EXCEPT !.round_responses = RecordResponse(@, data)]
         ELSE IF data.type = "round_end"
         THEN [st EXCEPT
                 !.complete_rounds = @ \cup {data.round},
                 !.last_complete_round = IF data.round > @ THEN data.round ELSE @,
                 !.last_round_end_line_idx =
                     IF data.round > st.last_complete_round THEN i ELSE @]
         ELSE st

RECURSIVE ReplayLines(_, _, _)
ReplayLines(lines, i, st) ==
    IF i > Len(lines) \/ st.aborted THEN st
    ELSE ReplayLines(lines, i + 1, ReplayLine(st, lines[i], i))

ReplayInit ==
    [last_complete_round |-> -1, last_round_end_line_idx |-> -1,
     round_responses |-> <<>>, complete_rounds |-> {}, aborted |-> FALSE]

\* A faulty variant of find_last_complete_round: the round of the last round_start
\* or round_end line, ended or not.
RECURSIVE LastStartedRound(_, _)
LastStartedRound(lines, i) ==
    IF i = 0 THEN -1
    ELSE IF JsonLoads(lines[i]) /\ Data(lines[i]).type \in {"round_start", "round_end"}
         THEN Data(lines[i]).round
         ELSE LastStartedRound(lines, i - 1)

find_last_started_round(exists, lines) ==
    LET st == ReplayLines(lines, 1, ReplayInit)
        r  == LastStartedRound(lines, Len(lines))
    IN  IF ~exists \/ r = -1 THEN NoneResult
        ELSE [is_none |-> FALSE, last_round |-> r,
              agent_states |-> IF r \in DOMAIN st.round_responses
                               THEN st.round_responses[r] ELSE <<>>]

\* A faulty variant of find_last_complete_round: the states returned are those of the
\* latest round that has any response, complete or not.
find_latest_responses(exists, lines) ==
    LET st == ReplayLines(lines, 1, ReplayInit) IN
    IF ~exists \/ st.aborted \/ st.last_complete_round = -1 THEN NoneResult
    ELSE [is_none |-> FALSE, last_round |-> st.last_complete_round,
          agent_states |-> st.round_responses[Largest(DOMAIN st.round_responses)]]

\* find_last_complete_round(jsonl_path) -> (last_round or None, agent_states)
find_last_complete_round(exists, lines) ==
    IF ~exists THEN NoneResult
    ELSE LET st == ReplayLines(lines, 1, ReplayInit) IN
         IF st.aborted THEN NoneResult
         ELSE IF st.last_complete_round = -1 THEN NoneResult
         ELSE [is_none |-> FALSE, last_round |-> st.last_complete_round,
               agent_states |->
                   IF st.last_complete_round \in DOMAIN st.round_responses
                   THEN st.round_responses[st.last_complete_round] ELSE <<>>]

\* ----------------------------------------------- resume_utils.py: truncate
\* The "for line in lines" loop: the index of the line at which it breaks
\* (the first round_end of target_round), 0 when it runs to the end.
RECURSIVE TargetLine(_, _, _)
TargetLine(lines, i, target_round) ==
    IF i > Len(lines) THEN 0
    ELSE IF /\ JsonLoads(lines[i])
            /\ Data(lines[i]).type = "round_end"
            /\ Data(lines[i]).round = target_round
         THEN i
         ELSE TargetLine(lines, i + 1, target_round)

found_target(exists, lines, target_round) ==
    exists /\ TargetLine(lines, 1, target_round) # 0

valid_lines(lines, target_round) ==
    IF TargetLine(lines, 1, target_round) = 0 THEN lines
    ELSE SubSeq(lines, 1, TargetLine(lines, 1, target_round))

\* A faulty variant of truncate_log_to_round: the found_target test is dropped.
truncate_without_check(exists, lines, target_round) ==
    [ok |-> exists, file |-> valid_lines(lines, target_round)]

\* A faulty variant of truncate_log_to_round: the round_end line itself is cut off too.
truncate_before_target(exists, lines, target_round) ==
    IF ~found_target(exists, lines, target_round)
    THEN [ok |-> FALSE, file |-> lines]
    ELSE [ok |-> TRUE,
          file |-> SubSeq(lines, 1, TargetLine(lines, 1, target_round) - 1)]

\* truncate_log_to_round(jsonl_path, target_round) -> bool, no I/O error:
\* the file is reopened with 'w' and valid_lines are written back.
truncate_log_to_round(exists, lines, target_round) ==
    IF ~exists THEN [ok |-> FALSE, file |-> lines]
    ELSE IF ~found_target(exists, lines, target_round)
    THEN [ok |-> FALSE, file |-> lines]
    ELSE [ok |-> TRUE, file |-> valid_lines(lines, target_round)]

\* truncate_log_to_round when the write-back is cut short: open(path, 'w') has
\* emptied the file and only the first `written` of valid_lines reach it before
\* an I/O error (caught: the function returns False) or the death of the process.
truncate_write_back_cut(lines, target_round, written) ==
    [ok |-> FALSE, file |-> SubSeq(valid_lines(lines, target_round), 1, written)]

\* --------------------------------------------------- utils.py: metrics
Min(x, y) == IF x <= y THEN x ELSE y

\* sum(distribution.values())
RECURSIVE SumValues(_)
SumValues(d) ==
    IF DOMAIN d = {} THEN 0
    ELSE LET k == CHOOSE x \in DOMAIN d : TRUE IN
         d[k] + SumValues([x \in (DOMAIN d) \ {k} |-> d[x]])

\* A faulty variant of get_stance_distribution: agents without a stance are counted
\* too, under the key None.
get_stance_distribution_all(ag) ==
    [s \in {ag[a].stance : a \in DOMAIN ag} |->
        Cardinality({a \in DOMAIN ag : ag[a].stance = s})]

\* get_stance_distribution(agents): dict(Counter(...)) over the agents whose
\* current_stance is set.
get_stance_distribution(ag) ==
    [s \in {ag[a].stance : a \in {x \in DOMAIN ag : ag[x].stance # NoStance}} |->
        Cardinality({a \in DOMAIN ag : ag[a].stance = s})]

\* math.log2(num / den) for num >= den > 0, in units of 1/1024 bit: the
\* integer part, then ten fractional bits by repeated squaring of the
\* mantissa (held with twelve fractional bits).
RECURSIVE IntLog2(_, _)
IntLog2(num, den) == IF 2 * den > num THEN 0 ELSE 1 + IntLog2(num, 2 * den)

RECURSIVE FracLog2(_, _, _)
FracLog2(mantissa, bits, weight) ==
    IF bits = 0 THEN 0
    ELSE LET sq == (mantissa * mantissa) \div 4096 IN
         IF sq >= 2 * 4096
         THEN weight + FracLog2(sq \div 2, bits - 1, weight \div 2)
         ELSE FracLog2(sq, bits - 1, weight \div 2)

Log2Ratio(num, den) ==
    LET k == IntLog2(num, den) IN
    k * 1024 + FracLog2((num * 4096) \div (den * (2 ^ k)), 10, 512)

\* A faulty variant of EntropyTerms: every stance, also one whose count is 0.
EntropyTermsAll(d) == DOMAIN d

\* The stances the loop takes p * log2(p) of: if count > 0.
EntropyTerms(d) == {s \in DOMAIN d : d[s] > 0}

\* calculate_entropy(distribution), in units of 1/1024 bit:
\* entropy -= p * log2(p) for every count > 0, with p = count / total.
RECURSIVE EntropySum(_, _)
EntropySum(d, total) ==
    IF DOMAIN d = {} THEN 0
    ELSE LET k == CHOOSE x \in DOMAIN d : TRUE
             rest == EntropySum([x \in (DOMAIN d) \ {k} |-> d[x]], total)
         IN  IF k \in EntropyTerms(d)
             THEN (d[k] * Log2Ratio(total, d[k])) \div total + rest
             ELSE rest

\* A faulty variant of calculate_entropy: entropy += p * log2(p).
calculate_entropy_added(distribution) ==
    LET total == SumValues(distribution) IN
    IF total = 0 THEN 0 ELSE 0 - EntropySum(distribution, total)

calculate_entropy(distribution) ==
    LET total == SumValues(distribution) IN
    IF total = 0 THEN 0 ELSE EntropySum(distribution, total)

\* A call of calculate_entropy: the value it returns, or the ValueError that
\* math.log2 raises for p = 0.
calculate_entropy_call(distribution) ==
    IF /\ SumValues(distribution) # 0
       /\ \E s \in EntropyTerms(distribution) : distribution[s] = 0
    THEN [raised |-> "ValueError", value |-> 0]
    ELSE [raised |-> "", value |-> calculate_entropy(distribution)]

\* ---------------------------------------------- utils.py: peer sampling
\* A faulty variant of PeerIds: the invoking agent stays among the peers.
PeerIdsWithSelf(ag, current_agent_id) == DOMAIN ag

\* peers = [a for a in agents if a.id != current_agent_id], in list order.
PeerIds(ag, current_agent_id) == (DOMAIN ag) \ {current_agent_id}

\* What rng.sample(peers, sample_size) can return: sample_size distinct peers
\* in any order.
SampleOutcomes(ag, current_agent_id, k) ==
    LET peers == PeerIds(ag, current_agent_id)
        sample_size == Min(k, Cardinality(peers))
    IN  {c \in [1..sample_size -> peers] :
            \A i, j \in 1..sample_size : i # j => c[i] # c[j]}

\* sampled.sort(key=lambda x: x.id)
RECURSIVE SortById(_)
SortById(ids) ==
    IF ids = {} THEN <<>>
    ELSE LET first == CHOOSE a \in ids : \A b \in ids : IdRank(a) <= IdRank(b)
         IN  <<first>> \o SortById(ids \ {first})

PeerDict(ag, p) ==
    [id |-> p, persona |-> <<"persona", p>>,
     stance |-> ag[p].stance, rationale |-> ag[p].rationale]

\* A faulty variant of sample_peers: what rng.sample returned is rendered in
\* the order it was drawn.
sample_peers_unsorted(ag, current_agent_id, k, sampled) ==
    [i \in DOMAIN sampled |-> PeerDict(ag, sampled[i])]

\* sample_peers(agents, current_agent_id, k, seed), `sampled` being what
\* rng.sample returned: sorted by id and rendered from the agents as they are
\* at the time of the call.
sample_peers(ag, current_agent_id, k, sampled) ==
    LET sorted == SortById({sampled[i] : i \in DOMAIN sampled})
    IN  [i \in DOMAIN sorted |-> PeerDict(ag, sorted[i])]

\* ------------------------------------------------------- last operation
\* What the last operation was given and what it returned.
Res(op, ok, found, target, before_exists, before) ==
    [op |-> op, ok |-> ok, is_none |-> found.is_none,
     last_round |-> found.last_round, agent_states |-> found.agent_states,
     target |-> target, before_exists |-> before_exists, before |-> before]

NoRes == Res("none", FALSE, NoneResult, -1, FALSE, <<>>)

\* ------------------------------------------------- parts that are not run
\* The summary file before log_experiment_end has opened it.
NoSummary == [experiment_id |-> ""]
NoSummaryFile == [exists |-> FALSE, whole |-> FALSE, doc |-> NoSummary]

\* Python's None where a text, a parsed value or an error description is
\* expected (texts and values are sequences of tokens).
PyNone == <<"None">>

\* generate() before it is called, and what it holds before it returns.
NoError  == PyNone
NoResult == [returned |-> FALSE]

\* No model call is made.
ClientOff ==
    /\ max_retries = 0
    /\ retry_delay = 0
    /\ cpc = "off"
    /\ attempt = 0
    /\ last_error = NoError
    /\ calls = <<>>
    /\ sleeps = <<>>
    /\ result = NoResult

\* No concurrent worker writes to the log.
WorkersOff ==
    /\ wpc = <<>>
    /\ woffset = <<>>

\* _parse_json_response before it is called.
NotExtracted == <<"not called">>

\* No text is given to _parse_json_response on its own.
ParseOff ==
    /\ response_text = <<>>
    /\ extracted = NotExtracted

\* sample_peers before it is called.
NoSeed == [given |-> FALSE, value |-> 0]
NoSampleCall == [size |-> 0, current_agent_id |-> NoAgent, k |-> 0, seed |-> NoSeed]
NoSample == [call |-> NoSampleCall, result |-> <<>>]

\* sample_peers is not called on its own.
SampleOff ==
    /\ sample_call = NoSampleCall
    /\ sample_result = <<>>
    /\ global_rng = 0
    /\ first_sample = NoSample
    /\ sample_count = 0

\* calculate_entropy before it is called.
NotComputed == [raised |-> "not called", value |-> 0]

\* calculate_entropy is not called on its own.
EntropyOff ==
    /\ stance_counts = <<>>
    /\ entropy_value = NotComputed

\* calculate_time_to_collapse before it is called; its None.
NoCollapseCall == [entropy_history |-> <<>>, threshold_absolute |-> 0,
                   consecutive_rounds |-> 0]
NotCalled  == [returned |-> FALSE, is_none |-> TRUE, index |-> 0]
NoCollapse == [returned |-> TRUE, is_none |-> TRUE, index |-> 0]

\* calculate_time_to_collapse is not called on its own.
CollapseOff ==
    /\ collapse_call = NoCollapseCall
    /\ collapse_result = NotCalled
    /\ first_collapse = [result |-> NotCalled, length |-> 0]

\* No utility function is applied on its own.
PureOff ==
    /\ ParseOff
    /\ SampleOff
    /\ EntropyOff
    /\ CollapseOff

\* =================== the log under arbitrary logger calls =================
\* The responses log_agent_response is called with in this specification.
LogResponses ==
    { Response("PULL_LEVER", "r0", FALSE, "INITIAL", TRUE),
      Response("DO_NOT_PULL", "r1", TRUE, "INFORMATIONAL", TRUE) }

\* The (agent, response) pairs of those calls: two responses for the first
\* agent (a (round, agent) pair can be written twice with different content)
\* and one for every other agent.
ResponseCalls ==
    {c \in LogAgents \X LogResponses :
        c[1] = "a1" \/ c[2].stance = "PULL_LEVER"}

\* The text a crash inside f.write() leaves behind: a round_end that lacks
\* only its newline, or an event cut short (any cut text fails json.loads).
CrashPieces ==
    {Piece(RoundEndEvent(r, NoStats, 0), TRUE) : r \in Rounds}
    \cup {Piece(RoundStartEvent(0, NoStats), FALSE)}

\* No engine runs in this specification.
EngineOff ==
    /\ pc = "off"
    /\ condition = "C1_FULL"
    /\ num_rounds = 0
    /\ round_number = 0
    /\ idx = 1
    /\ agents = <<>>
    /\ entropy_history = <<>>
    /\ last_stats = NoStats
    /\ last_sample = <<>>
    /\ round_snapshot = <<>>
    /\ mem_at_end = <<>>

InitLog ==
    /\ file_exists = FALSE
    /\ log = <<>>
    /\ res = NoRes
    /\ crashes = 0
    /\ EngineOff
    /\ summary_file = NoSummaryFile
    /\ ClientOff
    /\ WorkersOff
    /\ PureOff

\* The number of pieces of text a file holds.
RECURSIVE PieceCount(_)
PieceCount(f) ==
    IF f = <<>> THEN 0 ELSE Len(Head(f).parts) + PieceCount(Tail(f))

Written(f) ==
    /\ PieceCount(f) <= MaxLogLen
    /\ log' = f
    /\ file_exists' = TRUE
    /\ res' = Res("write", TRUE, NoneResult, -1, TRUE, <<>>)
    /\ UNCHANGED <<crashes, engine_vars, summary_file, other_vars>>

\* ExperimentLogger.log_round_start(round_number, stats)
LogRoundStart ==
    \E r \in Rounds : Written(_write_event(log, RoundStartEvent(r, NoStats)))

\* ExperimentLogger.log_agent_response(round_number, agent_id, response)
LogAgentResponse ==
    \E r \in Rounds, c \in ResponseCalls :
        Written(_write_event(log, AgentResponseEvent(r, c[1], c[2])))

\* ExperimentLogger.log_round_end(round_number, stats, entropy)
LogRoundEnd ==
    \E r \in Rounds : Written(_write_event(log, RoundEndEvent(r, NoStats, 0)))

\* The process dies inside f.write(): the JSON text is cut short, or it is all
\* there and only the newline is missing.
CrashInWrite ==
    /\ crashes < MaxCrashes
    /\ \E piece \in CrashPieces :
          LET f == AppendText(log, piece, FALSE) IN
          /\ PieceCount(f) <= MaxLogLen
          /\ log' = f
    /\ file_exists' = TRUE
    /\ res' = Res("crash", FALSE, NoneResult, -1, file_exists, log)
    /\ crashes' = crashes + 1
    /\ UNCHANGED <<engine_vars, summary_file, other_vars>>

\* find_last_complete_round(jsonl_path)
FindLastCompleteRound ==
    /\ res' = Res("find", TRUE, find_last_complete_round(file_exists, log), -1,
                  file_exists, log)
    /\ UNCHANGED <<file_exists, log, crashes, engine_vars, summary_file, other_vars>>

\* truncate_log_to_round(jsonl_path, target_round), no I/O error
TruncateLogToRound ==
    \E t \in Rounds :
        LET out == truncate_log_to_round(file_exists, log, t) IN
        /\ log' = out.file
        /\ res' = Res("truncate", out.ok, NoneResult, t, file_exists, log)
        /\ UNCHANGED <<file_exists, crashes, engine_vars, summary_file, other_vars>>

\* truncate_log_to_round(jsonl_path, target_round) whose write-back fails
TruncateWriteBackCut ==
    /\ crashes < MaxCrashes
    /\ \E t \in Rounds :
        /\ found_target(file_exists, log, t)
        /\ \E written \in 0..(Len(valid_lines(log, t)) - 1) :
              LET out == truncate_write_back_cut(log, t, written) IN
              /\ log' = out.file
              /\ res' = Res("truncate_cut", out.ok, NoneResult, t, file_exists, log)
    /\ crashes' = crashes + 1
    /\ UNCHANGED <<file_exists, engine_vars, summary_file, other_vars>>

NextLog ==
    \/ LogRoundStart
    \/ LogAgentResponse
    \/ LogRoundEnd
    \/ CrashInWrite
    \/ FindLastCompleteRound
    \/ TruncateLogToRound
    \/ TruncateWriteBackCut

SpecLog == InitLog /\ [][NextLog]_vars

\* ============================ the logger alone ===========================
\* The dicts log_config, log_agent_response and log_experiment_end are called
\* with: the keys the run uses, and dicts that also hold a key of the event.
ConfigPayloads ==
    { [condition |-> "C1_FULL", seed |-> 42],
      [condition |-> "C1_FULL", seed |-> 42, type |-> "phase1"] }

ResponsePayloads ==
    { Response("PULL_LEVER", "r0", FALSE, "INITIAL", TRUE),
      Spread(Response("PULL_LEVER", "r0", FALSE, "INITIAL", TRUE),
             [timestamp |-> "None"]),
      Spread(Response("PULL_LEVER", "r0", FALSE, "INITIAL", TRUE),
             [round |-> 1, agent_id |-> "a2"]) }

SummaryPayloads ==
    { [experiment_id |-> "exp", final_entropy |-> 0, time_to_collapse |-> 0],
      [experiment_id |-> "exp", final_entropy |-> 0, time_to_collapse |-> 0,
       type |-> "summary"] }

\* ExperimentLogger.log_config: {"type": "config", "timestamp", **config}
LogConfigEvent(config) == Spread(ConfigEvent, config)
\* ExperimentLogger.log_experiment_end: {"type", "timestamp", **summary}
LogExperimentEndEvent(summary) ==
    Spread(Event("experiment_end", -1, NoAgent, NoResponse, NoStats, 0), summary)

\* with open(self.summary_file, 'w') as f: json.dump(summary, f)
SummaryWritten(summary) == [exists |-> TRUE, whole |-> TRUE, doc |-> summary]
\* open(self.summary_file, 'w') has emptied the file and json.dump has not
\* written all of the document.
SummaryCut(summary) == [exists |-> TRUE, whole |-> FALSE, doc |-> summary]

InitLogger == InitLog

\* A logger call that returned: the event is appended by _write_event.
Logged(op, f) ==
    /\ PieceCount(f) <= MaxLogLen
    /\ log' = f
    /\ file_exists' = TRUE
    /\ res' = Res(op, TRUE, NoneResult, -1, file_exists, log)
    /\ UNCHANGED <<crashes, engine_vars, other_vars>>

\* ExperimentLogger(experiment_id, resume): the header is written unless
\* resuming.
__init__ ==
    \E resume \in BOOLEAN :
        IF resume
        THEN /\ res' = Res("__init__(resume)", TRUE, NoneResult, -1, file_exists, log)
             /\ UNCHANGED <<file_exists, log, crashes, engine_vars, summary_file,
                            other_vars>>
        ELSE /\ Logged("__init__", _write_event(log, ExperimentStartEvent))
             /\ UNCHANGED summary_file

log_config ==
    \E config \in ConfigPayloads :
        /\ Logged("log_config", _write_event(log, LogConfigEvent(config)))
        /\ UNCHANGED summary_file

log_round_start ==
    \E r \in Rounds :
        /\ Logged("log_round_start", _write_event(log, RoundStartEvent(r, NoStats)))
        /\ UNCHANGED summary_file

log_agent_response ==
    \E response \in ResponsePayloads :
        /\ Logged("log_agent_response",
                  _write_event(log, AgentResponseEvent(0, "a1", response)))
        /\ UNCHANGED summary_file

log_round_end ==
    \E r \in Rounds :
        /\ Logged("log_round_end", _write_event(log, RoundEndEvent(r, NoStats, 0)))
        /\ UNCHANGED summary_file

\* ExperimentLogger.log_experiment_end: the event, then the summary file.
log_experiment_end ==
    \E summary \in SummaryPayloads :
        /\ Logged("log_experiment_end", _write_event(log, LogExperimentEndEvent(summary)))
        /\ summary_file' = SummaryWritten(summary)

\* log_experiment_end with its two steps exchanged: the process dies after the
\* summary file is written and before the event is appended.
CrashInLogExperimentEnd_summary_first ==
    /\ crashes < MaxCrashes
    /\ \E summary \in SummaryPayloads : summary_file' = SummaryWritten(summary)
    /\ res' = Res("crash", FALSE, NoneResult, -1, file_exists, log)
    /\ crashes' = crashes + 1
    /\ UNCHANGED <<file_exists, log, engine_vars, other_vars>>

\* The process dies in log_experiment_end after the event is appended: before
\* the summary file is opened, or inside json.dump.
CrashInLogExperimentEnd ==
    /\ crashes < MaxCrashes
    /\ \E summary \in SummaryPayloads :
          LET f == _write_event(log, LogExperimentEndEvent(summary)) IN
          /\ PieceCount(f) <= MaxLogLen
          /\ log' = f
          /\ summary_file' \in {summary_file, SummaryCut(summary)}
    /\ file_exists' = TRUE
    /\ res' = Res("crash", FALSE, NoneResult, -1, file_exists, log)
    /\ crashes' = crashes + 1
    /\ UNCHANGED <<engine_vars, other_vars>>

\* The machine goes down.  _write_event closes the file and never calls
\* flush() + os.fsync(): what is on the disk is what the kernel had written
\* back by then, any prefix of the file.
MachineCrash ==
    /\ crashes < MaxCrashes
    /\ file_exists
    /\ \E n \in 0..Len(log) :
          /\ log' = SubSeq(log, 1, n)
          /\ file_exists' \in (IF n = 0 THEN {TRUE, FALSE} ELSE {TRUE})
    /\ summary_file' \in {summary_file, NoSummaryFile}
    /\ res' = Res("machine_crash", FALSE, NoneResult, -1, file_exists, log)
    /\ crashes' = crashes + 1
    /\ UNCHANGED <<engine_vars, other_vars>>

NextLogger ==
    \/ __init__
    \/ log_config
    \/ log_round_start
    \/ log_agent_response
    \/ log_round_end
    \/ log_experiment_end
    \/ CrashInWrite
    \/ CrashInLogExperimentEnd
    \/ MachineCrash

SpecLogger == InitLogger /\ [][NextLogger]_vars

\* ================= concurrent workers writing to the log =================
\* Each worker of a round logs the response of its own agent through
\* _write_event, which takes no lock: open(log_file, 'a'), f.write(text),
\* close.  Whether the append of one handle can fall between the seek to the
\* end of file and the write of another is left to the platform, so both
\* outcomes are steps of a worker: the append in one step (O_APPEND of a
\* local POSIX file system), and the seek and the write in two steps (the C
\* runtime of Windows, network file systems).
Workers == Agents

WorkerEvent(w) ==
    AgentResponseEvent(0, w, Response("PULL_LEVER", "r0", FALSE, "INITIAL", TRUE))

InitWorkers ==
    /\ file_exists = TRUE
    /\ log = _write_event(<<>>, RoundStartEvent(0, NoStats))
    /\ res = NoRes
    /\ crashes = 0
    /\ EngineOff
    /\ summary_file = NoSummaryFile
    /\ ClientOff
    /\ PureOff
    /\ wpc = [w \in Workers |-> "idle"]
    /\ woffset = [w \in Workers |-> 0]

WorkerStep(w, to) ==
    /\ wpc' = [wpc EXCEPT ![w] = to]
    /\ res' = Res("log_agent_response", TRUE, NoneResult, -1, file_exists, log)
    /\ UNCHANGED <<file_exists, crashes, engine_vars, summary_file, client_vars,
                   pure_vars>>

\* open(self.log_file, 'a')
WorkerOpen ==
    \E w \in Workers :
        /\ wpc[w] = "idle"
        /\ WorkerStep(w, "open")
        /\ UNCHANGED <<log, woffset>>

\* f.write(json.dumps(event) + '\n') and close, the append being one step.
WorkerAppend ==
    \E w \in Workers :
        /\ wpc[w] = "open"
        /\ log' = _write_event(log, WorkerEvent(w))
        /\ WorkerStep(w, "done")
        /\ UNCHANGED woffset

\* The first half of an append that is not one step: the end of file is
\* looked up.
WorkerSeek ==
    \E w \in Workers :
        /\ wpc[w] = "open"
        /\ woffset' = [woffset EXCEPT ![w] = Len(log)]
        /\ WorkerStep(w, "seeked")
        /\ UNCHANGED log

\* The text of ev written at the end of the first offset lines of f: beyond
\* the end it is appended; over a line written meanwhile it replaces that
\* line, all of it (overlong = FALSE) or all but a tail that stays behind as
\* a line of its own (overlong = TRUE, the line there was the longer one).
WriteAt(f, offset, ev, overlong) ==
    IF offset >= Len(f) THEN _write_event(f, ev)
    ELSE SubSeq(f, 1, offset)
         \o <<Line(<<Piece(ev, TRUE)>>, TRUE)>>
         \o (IF overlong THEN <<Line(<<Piece(Data(f[offset + 1]), FALSE)>>, TRUE)>>
             ELSE <<>>)
         \o SubSeq(f, offset + 2, Len(f))

\* The second half: the text is written where the end of file was.
WorkerWrite ==
    \E w \in Workers, overlong \in BOOLEAN :
        /\ wpc[w] = "seeked"
        /\ log' = WriteAt(log, woffset[w], WorkerEvent(w), overlong)
        /\ WorkerStep(w, "done")
        /\ UNCHANGED woffset

NextWorkers ==
    \/ WorkerOpen
    \/ WorkerAppend
    \/ WorkerSeek
    \/ WorkerWrite

SpecWorkers == InitWorkers /\ [][NextWorkers]_vars

\* ===================== llm_client.py: the model call =====================
\* A text is a sequence of tokens: "{" and "}", "k" (a member such as
\* "stance": "PULL_LEVER"), "a:" (a key and its colon, a value follows),
\* "5" (a number), "null", "w" (white space), "t" (prose), and the fences of
\* a code block, labeled json ("<fence json>") or bare ("<fence>").
NoWs(text) == SelectSeq(text, LAMBDA x : x # "w")

\* The tokens, white space left out, are one JSON value.
RECURSIVE IsJson(_)
IsJson(c) ==
    \/ c \in {<<"5">>, <<"null">>}
    \/ /\ Len(c) >= 2
       /\ c[1] = "{"
       /\ c[Len(c)] = "}"
       /\ LET inner == SubSeq(c, 2, Len(c) - 1) IN
          \/ inner \in {<<>>, <<"k">>}
          \/ /\ Len(inner) >= 2
             /\ inner[1] = "a:"
             /\ IsJson(Tail(inner))

JSONDecodeError == <<"JSONDecodeError">>
NoMatch == <<"NoMatch">>

\* json.loads(text.strip()): the value (None for null), or JSONDecodeError.
json_loads(text) ==
    LET c == NoWs(text) IN
    IF ~IsJson(c) THEN JSONDecodeError
    ELSE IF c = <<"null">> THEN PyNone ELSE c

FenceTokens == {"<fence json>", "<fence>"}

\* The position of the first token of S at or after from, 0 when none.
FirstIndex(text, S, from) ==
    LET at == {i \in from..Len(text) : text[i] \in S} IN
    IF at = {} THEN 0 ELSE Smallest(at)

\* re.search(patterns[0], text).group(1), the pattern being a fence labeled
\* json, \s*, a lazy group, \s* and a fence: from the first labeled fence to
\* the nearest fence after it (a labeled fence starts with a fence too).
JsonFenceGroup(text) ==
    LET i == FirstIndex(text, {"<fence json>"}, 1)
        j == IF i = 0 THEN 0 ELSE FirstIndex(text, FenceTokens, i + 1)
    IN  IF j = 0 THEN NoMatch ELSE SubSeq(text, i + 1, j - 1)

\* re.search(patterns[1], text).group(1), the same pattern without the
\* label: from the first fence of any kind; the label of a labeled fence is
\* then part of the group.
AnyFenceGroup(text) ==
    LET i == FirstIndex(text, FenceTokens, 1)
        j == IF i = 0 THEN 0 ELSE FirstIndex(text, FenceTokens, i + 1)
    IN  IF j = 0 THEN NoMatch
        ELSE (IF text[i] = "<fence json>" THEN <<"json">> ELSE <<>>)
             \o SubSeq(text, i + 1, j - 1)

\* re.search(r'\{[\s\S]*\}', text).group(0): greedy, from the first "{" to
\* the last "}".
BraceGroup(text) ==
    LET i == FirstIndex(text, {"{"}, 1)
        closing == IF i = 0 THEN {} ELSE {j \in (i + 1)..Len(text) : text[j] = "}"}
    IN  IF closing = {} THEN NoMatch ELSE SubSeq(text, i, Largest(closing))

\* The loop over the patterns, from pattern n on: the first group that loads
\* is returned, a group that does not load is passed over.
RECURSIVE TryPatterns(_, _)
TryPatterns(text, n) ==
    IF n > 3 THEN PyNone
    ELSE LET group == CASE n = 1 -> JsonFenceGroup(text)
                        [] n = 2 -> AnyFenceGroup(text)
                        [] OTHER -> BraceGroup(text)
             loaded == IF group = NoMatch THEN JSONDecodeError ELSE json_loads(group)
         IN  IF loaded # JSONDecodeError THEN loaded ELSE TryPatterns(text, n + 1)

\* A faulty variant of _parse_json_response: the brace pattern is tried
\* before the fence patterns.
_parse_json_response_brace_first(text) ==
    IF text = PyNone \/ text = <<>> THEN PyNone
    ELSE LET direct == json_loads(text)
             brace  == IF BraceGroup(text) = NoMatch THEN JSONDecodeError
                       ELSE json_loads(BraceGroup(text))
         IN  IF direct # JSONDecodeError THEN direct
             ELSE IF brace # JSONDecodeError THEN brace
             ELSE TryPatterns(text, 1)

\* OllamaClient._parse_json_response
_parse_json_response(text) ==
    IF text = PyNone \/ text = <<>> THEN PyNone
    ELSE LET direct == json_loads(text) IN
         IF direct # JSONDecodeError THEN direct ELSE TryPatterns(text, 1)

\* The value of the "response" key of the backend's answer: texts, "" (also
\* when the key is missing), null, and a value that is no text.
NonString == <<"<int>">>
AnswerTexts ==
    { <<>>,
      <<"{", "k", "}">>,
      <<"t">>,
      <<"t", "<fence json>", "w", "{", "k", "}", "w", "<fence>">>,
      <<"<fence>", "{", "k", "}", "<fence>">>,
      <<"t", "{", "k", "}", "t", "{", "k", "}">>,
      <<"5">> }

\* What the backend does on one requests.post: no answer in time, no
\* connection, an HTTP error status, an answer whose body is not JSON or is
\* JSON but no object, or an answer object.
BackendOutcomes ==
    { [kind |-> "Timeout", detail |-> "e1", response |-> <<>>],
      [kind |-> "ConnectionError", detail |-> "e1", response |-> <<>>],
      [kind |-> "ConnectionError", detail |-> "e2", response |-> <<>>],
      [kind |-> "HTTPError", detail |-> "e1", response |-> <<>>],
      [kind |-> "not_json", detail |-> "e1", response |-> <<>>],
      [kind |-> "not_object", detail |-> "e1", response |-> <<>>] }
    \cup { [kind |-> "answer", detail |-> "", response |-> text] :
               text \in AnswerTexts \cup {PyNone, NonString} }

\* The exception the try block of generate() ends with, "none" when it
\* reaches its return.  response.json() raises a RequestException subclass
\* or a plain ValueError, depending on the version of requests; .get on a
\* body that is no object and .strip on a response that is no text raise
\* AttributeError.
ExceptionsOf(outcome) ==
    CASE outcome.kind \in {"Timeout", "ConnectionError", "HTTPError"} -> {outcome.kind}
      [] outcome.kind = "not_json" -> {"requests.JSONDecodeError", "ValueError"}
      [] outcome.kind = "not_object" -> {"AttributeError"}
      [] OTHER -> IF outcome.response = NonString THEN {"AttributeError"} ELSE {"none"}

\* A faulty variant of ExceptClause: without the last clause, except Exception.
ExceptClauseRequestsOnly(exc) ==
    CASE exc = "Timeout" -> "Timeout after"
      [] exc = "ConnectionError" -> "Connection error"
      [] exc \in {"HTTPError", "requests.JSONDecodeError"} -> "Request error"
      [] OTHER -> "uncaught"

\* The except clause that handles the exception, by the text it starts
\* last_error with.
ExceptClause(exc) ==
    CASE exc = "Timeout" -> "Timeout after"
      [] exc = "ConnectionError" -> "Connection error"
      [] exc \in {"HTTPError", "requests.JSONDecodeError"} -> "Request error"
      [] OTHER -> "Unexpected error"

\* last_error as the clause sets it: f"Timeout after {self.timeout}s", or the
\* clause's text followed by str(e).
Description(exc, outcome) ==
    IF exc = "Timeout" THEN <<"Timeout after", "120s">>
    ELSE <<ExceptClause(exc), outcome.detail>>

\* A faulty variant of LastError: the first error is kept.
FirstError(previous, description) ==
    IF previous = NoError THEN description ELSE previous

\* last_error = ...: each clause overwrites it.
LastError(previous, description) == description

\* A faulty variant of LoopRange: one attempt more.
LoopRangeInclusive(n) == 0..n

\* range(self.max_retries)
LoopRange(n) == 0..(n - 1)

\* A faulty variant of Delay: the same wait after every attempt.
DelayConstant(delay, n) == delay

\* self.retry_delay * (attempt + 1)
Delay(delay, n) == delay * (n + 1)

\* A faulty variant of AnswerResult: the raw text is dropped when nothing
\* was parsed.
AnswerResultWithoutRaw(raw_response, parsed, n) ==
    [response |-> IF parsed = PyNone THEN PyNone ELSE raw_response,
     parsed |-> parsed, success |-> parsed # PyNone, model |-> "model",
     attempt |-> n + 1]

\* The dict returned from inside the try block.
AnswerResult(raw_response, parsed, n) ==
    [response |-> raw_response, parsed |-> parsed, success |-> parsed # PyNone,
     model |-> "model", attempt |-> n + 1]

\* The dict returned after the loop.
FailureResult(error, n) ==
    [response |-> PyNone, parsed |-> PyNone, success |-> FALSE, error |-> error,
     model |-> "model", attempt |-> n]

RetryDelays == {1, 2}

InitClient ==
    /\ file_exists = FALSE
    /\ log = <<>>
    /\ res = NoRes
    /\ crashes = 0
    /\ EngineOff
    /\ summary_file = NoSummaryFile
    /\ WorkersOff
    /\ PureOff
    /\ max_retries \in 0..MaxRetries
    /\ retry_delay \in RetryDelays
    /\ cpc = "idle"
    /\ attempt = 0
    /\ last_error = NoError
    /\ calls = <<>>
    /\ sleeps = <<>>
    /\ result = NoResult

ClientFrame == UNCHANGED <<log_vars, engine_vars, summary_file, worker_vars,
                           pure_vars, max_retries, retry_delay>>

\* generate() is entered: last_error = None, the loop starts.
generate ==
    /\ cpc = "idle"
    /\ cpc' = "loop"
    /\ attempt' = 0
    /\ last_error' = NoError
    /\ UNCHANGED <<calls, sleeps, result>>
    /\ ClientFrame

\* One pass of the loop, attempt being the loop variable: the request, then
\* the return with what was parsed, or the except clause and the sleep.
Attempt ==
    /\ cpc = "loop"
    /\ attempt \in LoopRange(max_retries)
    /\ \E outcome \in BackendOutcomes :
          /\ calls' = Append(calls, outcome)
          /\ \E exc \in ExceptionsOf(outcome) :
                IF exc = "none"
                THEN /\ result' = AnswerResult(outcome.response,
                                      _parse_json_response(outcome.response), attempt)
                     /\ cpc' = "returned"
                     /\ UNCHANGED <<attempt, last_error, sleeps>>
                ELSE IF ExceptClause(exc) = "uncaught"
                THEN /\ cpc' = "raised"
                     /\ UNCHANGED <<attempt, last_error, sleeps, result>>
                ELSE /\ last_error' = LastError(last_error, Description(exc, outcome))
                     /\ sleeps' = IF attempt < max_retries - 1
                                  THEN Append(sleeps, Delay(retry_delay, attempt))
                                  ELSE sleeps
                     /\ attempt' = attempt + 1
                     /\ UNCHANGED <<cpc, result>>
    /\ ClientFrame

\* The loop is over without a return: the failure result.
Exhausted ==
    /\ cpc = "loop"
    /\ attempt \notin LoopRange(max_retries)
    /\ result' = FailureResult(last_error, max_retries)
    /\ cpc' = "returned"
    /\ UNCHANGED <<attempt, last_error, calls, sleeps>>
    /\ ClientFrame

NextClient ==
    \/ generate
    \/ Attempt
    \/ Exhausted

SpecClient == InitClient /\ [][NextClient]_vars

\* ================== the replay of a log with foreign lines ================
\* The lines of the logs find_last_complete_round is given: events, a line
\* cut short, a JSON value that is no object, a round_end without a round.
ReplayLineKinds ==
    { Line(<<Piece(RoundStartEvent(0, NoStats), TRUE)>>, TRUE),
      Line(<<Piece(AgentResponseEvent(0, "a1",
                       Response("PULL_LEVER", "r0", FALSE, "INITIAL", TRUE)), TRUE)>>, TRUE),
      Line(<<Piece(RoundEndEvent(0, NoStats, 0), TRUE)>>, TRUE),
      Line(<<Piece(RoundEndEvent(1, NoStats, 0), TRUE)>>, TRUE),
      Line(<<Piece(RoundEndEvent(1, NoStats, 0), FALSE)>>, TRUE),
      Line(<<Piece(NotAnObject, TRUE)>>, TRUE),
      Line(<<Piece(RoundEndWithoutRound, TRUE)>>, TRUE) }

ReplayLogs == UNION {[1..n -> ReplayLineKinds] : n \in 0..MaxLogLen}

InitReplay ==
    /\ file_exists = TRUE
    /\ log \in ReplayLogs
    /\ res = NoRes
    /\ crashes = 0
    /\ EngineOff
    /\ summary_file = NoSummaryFile
    /\ ClientOff
    /\ WorkersOff
    /\ PureOff

NextReplay == FindLastCompleteRound

SpecReplay == InitReplay /\ [][NextReplay]_vars

\* ================ the utility functions, each on its own =================
\* The program without the utility function under study: no log, no engine,
\* no model call, no worker.
ProgramOff ==
    /\ file_exists = FALSE
    /\ log = <<>>
    /\ res = NoRes
    /\ crashes = 0
    /\ EngineOff
    /\ summary_file = NoSummaryFile
    /\ ClientOff
    /\ WorkersOff

program_vars == <<log_vars, engine_vars, summary_file, client_vars, worker_vars>>

\* ----------------------------------- llm_client.py: _parse_json_response
\* The texts the function is given: up to MaxTextLen tokens, a token being
\* a brace, a key with its colon, the JSON values null and 5, other text,
\* white space or a fence (with or without the label json).
ParseTokens == {"{", "}", "a:", "null", "5", "t", "w", "<fence json>", "<fence>"}
ParseTexts  == UNION {[1..n -> ParseTokens] : n \in 0..MaxTextLen}

InitParse ==
    /\ ProgramOff
    /\ SampleOff
    /\ EntropyOff
    /\ CollapseOff
    /\ response_text \in ParseTexts
    /\ extracted = NotExtracted

\* parsed = self._parse_json_response(raw_text)
ParseJsonResponse ==
    /\ extracted = NotExtracted
    /\ extracted' = _parse_json_response(response_text)
    /\ UNCHANGED <<program_vars, response_text, sample_vars, entropy_vars,
                   collapse_vars>>

NextParse == ParseJsonResponse

SpecParse == InitParse /\ [][NextParse]_vars

\* ------------------------------------------------ utils.py: sample_peers
\* The states of a random generator. random.Random(seed) starts from a state
\* fixed by the seed; rng.sample(peers, n) picks n distinct members one by
\* one, each pick fixed by the state it is made in, and moves the state on.
RngStates == 0..3
Seeds     == {[given |-> TRUE, value |-> v] : v \in {0, 1}}
SeedState(seed) == seed.value % 4
NextRng(state)  == (state + 1) % 4

RECURSIVE rng_sample(_, _, _)
rng_sample(state, peers, sample_size) ==
    IF sample_size = 0 THEN [sampled |-> <<>>, state |-> state]
    ELSE LET at   == (state % Len(peers)) + 1
             rest == rng_sample(NextRng(state),
                                SubSeq(peers, 1, at - 1) \o SubSeq(peers, at + 1, Len(peers)),
                                sample_size - 1)
         IN  [sampled |-> <<peers[at]>> \o rest.sampled, state |-> rest.state]

\* A faulty variant of the choice of generator: the shared generator also
\* when a seed is given.
SharedRng(seed, shared) == [shared |-> TRUE, state |-> shared]

\* rng = random.Random(seed) if seed is not None else random
Rng(seed, shared) ==
    IF seed.given THEN [shared |-> FALSE, state |-> SeedState(seed)]
    ELSE [shared |-> TRUE, state |-> shared]

\* The populations sample_peers is given: the first size agents, in list
\* order, the first without a stance yet.
SamplePopulation(size) ==
    [a \in {AgentIds[i] : i \in 1..size} |->
        [stance |-> IF a = AgentIds[1] THEN NoStance ELSE "PULL_LEVER",
         rationale |-> IF a = AgentIds[1] THEN "" ELSE "r0"]]

\* The calls: every population, every member of it as the invoking agent,
\* every k up to the largest population size, with and without a seed.
SampleCalls ==
    {c \in [size : 1..NumAgents, current_agent_id : Agents, k : 0..NumAgents,
            seed : Seeds \cup {NoSeed}] :
        c.current_agent_id \in DOMAIN SamplePopulation(c.size)}

InitSample ==
    /\ ProgramOff
    /\ ParseOff
    /\ EntropyOff
    /\ CollapseOff
    /\ sample_call = NoSampleCall
    /\ sample_result = <<>>
    /\ global_rng \in RngStates
    /\ first_sample = NoSample
    /\ sample_count = 0

\* sample_peers(agents, current_agent_id, k, seed)
SamplePeers(call) ==
    /\ sample_count < MaxSampleCalls
    /\ LET ag    == SamplePopulation(call.size)
           peers == SortById(PeerIds(ag, call.current_agent_id))
           rng   == Rng(call.seed, global_rng)
           drawn == rng_sample(rng.state, peers, Min(call.k, Len(peers)))
           returned == sample_peers(ag, call.current_agent_id, call.k, drawn.sampled)
       IN  /\ sample_call' = call
           /\ sample_result' = returned
           /\ global_rng' = IF rng.shared THEN drawn.state ELSE global_rng
           /\ first_sample' = IF sample_count = 0
                              THEN [call |-> call, result |-> returned]
                              ELSE first_sample
    /\ sample_count' = sample_count + 1
    /\ UNCHANGED <<program_vars, parse_vars, entropy_vars, collapse_vars>>

NextSample == \E call \in SampleCalls : SamplePeers(call)

SpecSample == InitSample /\ [][NextSample]_vars

\* -------------------------------------------- utils.py: calculate_entropy
\* The keys of a distribution: the scenario's stances and one more value.
DistributionKeys == Stances \cup {"UNDECIDED"}

\* The distributions the function is given: any keys, counts 0..MaxCount;
\* the empty mapping and the mappings with all counts zero are among them.
Distributions == UNION {[keys -> 0..MaxCount] : keys \in SUBSET DistributionKeys}

InitEntropy ==
    /\ ProgramOff
    /\ ParseOff
    /\ SampleOff
    /\ CollapseOff
    /\ stance_counts \in Distributions
    /\ entropy_value = NotComputed

\* calculate_entropy(distribution)
CalculateEntropy ==
    /\ entropy_value = NotComputed
    /\ entropy_value' = calculate_entropy_call(stance_counts)
    /\ UNCHANGED <<program_vars, parse_vars, sample_vars, stance_counts,
                   collapse_vars>>

NextEntropy == CalculateEntropy

SpecEntropy == InitEntropy /\ [][NextEntropy]_vars

\* ---------------------------------- utils.py: calculate_time_to_collapse
\* Entropy values and thresholds are in units of 1/1000 bit here.
DefaultThreshold == 469     \* threshold_absolute: float = 0.469
DefaultWindow    == 2       \* consecutive_rounds: int = 2

\* entropy_history[i : j] of Python: 0-based, j exclusive and clipped to the
\* length of the list.
Slice(history, i, j) == SubSeq(history, i + 1, Min(j, Len(history)))

Returned(i) == [returned |-> TRUE, is_none |-> FALSE, index |-> i]

\* A faulty variant of calculate_time_to_collapse: h < threshold_absolute.
calculate_time_to_collapse_strict(history, threshold, window) ==
    IF history = <<>> THEN NoCollapse
    ELSE LET hits == {i \in 0..(Len(history) - window) :
                        \A n \in DOMAIN Slice(history, i, i + window) :
                            Slice(history, i, i + window)[n] < threshold}
         IN  IF hits = {} THEN NoCollapse ELSE Returned(Smallest(hits))

\* A faulty variant of calculate_time_to_collapse: range(len(entropy_history)),
\* so that the last windows are shorter than consecutive_rounds.
calculate_time_to_collapse_short(history, threshold, window) ==
    IF history = <<>> THEN NoCollapse
    ELSE LET hits == {i \in 0..(Len(history) - 1) :
                        \A n \in DOMAIN Slice(history, i, i + window) :
                            Slice(history, i, i + window)[n] <= threshold}
         IN  IF hits = {} THEN NoCollapse ELSE Returned(Smallest(hits))

\* A faulty variant of calculate_time_to_collapse: the last window without a
\* value above the threshold is returned, not the first.
calculate_time_to_collapse_last(history, threshold, window) ==
    IF history = <<>> THEN NoCollapse
    ELSE LET hits == {i \in 0..(Len(history) - window) :
                        \A n \in DOMAIN Slice(history, i, i + window) :
                            Slice(history, i, i + window)[n] <= threshold}
         IN  IF hits = {} THEN NoCollapse ELSE Returned(Largest(hits))

\* calculate_time_to_collapse(entropy_history, threshold_absolute,
\* consecutive_rounds): the first i of range(len - consecutive_rounds + 1)
\* whose window has no value above the threshold.
calculate_time_to_collapse(history, threshold, window) ==
    IF history = <<>> THEN NoCollapse
    ELSE LET hits == {i \in 0..(Len(history) - window) :
                        \A n \in DOMAIN Slice(history, i, i + window) :
                            Slice(history, i, i + window)[n] <= threshold}
         IN  IF hits = {} THEN NoCollapse ELSE Returned(Smallest(hits))

\* The calls: histories of up to MaxHistory values, the default threshold
\* and one that a value of the histories equals, windows 0..MaxWindow.
EntropyValues == {200, 300, 400, 900, 1000}
Histories     == UNION {[1..n -> EntropyValues] : n \in 0..MaxHistory}
Thresholds    == {DefaultThreshold, 300}
CollapseCalls == [entropy_history : Histories, threshold_absolute : Thresholds,
                  consecutive_rounds : 0..MaxWindow]

InitCollapse ==
    /\ ProgramOff
    /\ ParseOff
    /\ SampleOff
    /\ EntropyOff
    /\ collapse_call \in CollapseCalls
    /\ collapse_result = NotCalled
    /\ first_collapse = [result |-> NotCalled, length |-> 0]

\* calculate_time_to_collapse(entropy_history, threshold_absolute, consecutive_rounds)
CalculateTimeToCollapse ==
    /\ collapse_result = NotCalled
    /\ collapse_result' = calculate_time_to_collapse(collapse_call.entropy_history,
                                                     collapse_call.threshold_absolute,
                                                     collapse_call.consecutive_rounds)
    /\ first_collapse' = [result |-> collapse_result',
                          length |-> Len(collapse_call.entropy_history)]
    /\ UNCHANGED <<program_vars, parse_vars, sample_vars, entropy_vars, collapse_call>>

\* A further round has completed: its entropy is appended to the history and
\* calculate_time_to_collapse is called on the longer history.
ExtendHistory ==
    /\ collapse_result.returned
    /\ Len(collapse_call.entropy_history) < MaxHistory
    /\ \E h \in EntropyValues :
          LET longer == Append(collapse_call.entropy_history, h) IN
          /\ collapse_call' = [collapse_call EXCEPT !.entropy_history = longer]
          /\ collapse_result' = calculate_time_to_collapse(longer,
                                     collapse_call.threshold_absolute,
                                     collapse_call.consecutive_rounds)
    /\ UNCHANGED <<program_vars, parse_vars, sample_vars, entropy_vars, first_collapse>>

NextCollapse ==
    \/ CalculateTimeToCollapse
    \/ ExtendHistory

SpecCollapse == InitCollapse /\ [][NextCollapse]_vars

\* ========================= the deliberation engine ========================
Conditions == {"C0_INDEPENDENT", "C1_FULL"}

Unset == [stance |-> NoStance, rationale |-> ""]
NoAgents == [a \in Agents |-> Unset]

\* The text of the rationale a model returns in a given round.
RationaleText == <<"r0", "r1", "r2", "r3", "r4">>

\* What the model backend returns for one agent: nothing parseable, or an
\* object whose stance is in the scenario's set or outside it.
ModelOutcomes ==
    {[parsed |-> FALSE, stance |-> NoStance]}
    \cup {[parsed |-> TRUE, stance |-> s] : s \in Stances \cup {"UNDECIDED"}}

\* A faulty variant of Resolve: after round 0 a failed parse is recorded as a
\* change out of uncertainty.
ResolveUncertain(round, prior, outcome) ==
    IF ~outcome.parsed \/ outcome.stance \notin Stances
    THEN Response(prior.stance, prior.rationale, round > 0,
                  IF round = 0 THEN "INITIAL" ELSE "UNCERTAINTY", FALSE)
    ELSE Response(outcome.stance, RationaleText[round + 1], FALSE, "INITIAL", TRUE)

\* ResponseResolver: the response that is applied to the agent and logged.
Resolve(round, prior, outcome) ==
    IF ~outcome.parsed \/ outcome.stance \notin Stances
    THEN Response(prior.stance, prior.rationale, FALSE,
                  IF round = 0 THEN "INITIAL" ELSE "NO_CHANGE", FALSE)
    ELSE LET changed == round > 0 /\ outcome.stance # prior.stance IN
         Response(outcome.stance, RationaleText[round + 1], changed,
                  IF round = 0 THEN "INITIAL"
                  ELSE IF changed THEN "INFORMATIONAL" ELSE "NO_CHANGE",
                  TRUE)

\* The agents as seeded from what find_last_complete_round returned.
Reconstruct(agent_states) ==
    [a \in Agents |-> IF a \in DOMAIN agent_states THEN agent_states[a] ELSE Unset]

InitEngine ==
    /\ file_exists = FALSE
    /\ log = <<>>
    /\ res = NoRes
    /\ crashes = 0
    /\ pc = "new"
    /\ condition \in Conditions
    /\ num_rounds = NumRounds
    /\ round_number = 0
    /\ idx = 1
    /\ agents = NoAgents
    /\ entropy_history = <<>>
    /\ last_stats = NoStats
    /\ last_sample = <<>>
    /\ round_snapshot = NoAgents
    /\ mem_at_end = <<>>
    /\ summary_file = NoSummaryFile
    /\ ClientOff
    /\ WorkersOff
    /\ PureOff

EngineRes(op) == Res(op, TRUE, NoneResult, -1, TRUE, <<>>)

\* On start, not resuming: experiment_start and config are written.
StartExperiment ==
    /\ pc = "new"
    /\ log' = _write_event(_write_event(log, ExperimentStartEvent), ConfigEvent)
    /\ file_exists' = TRUE
    /\ res' = EngineRes("log_config")
    /\ pc' = "round_start"
    /\ UNCHANGED <<crashes, condition, num_rounds, round_number, idx, agents, entropy_history,
                   last_stats, last_sample, round_snapshot, mem_at_end,
                   summary_file, other_vars>>

\* Per round: round_start is emitted with the pre-round distribution.
RoundStart ==
    /\ pc = "round_start"
    /\ LET stats == get_stance_distribution(agents) IN
       /\ log' = _write_event(log, RoundStartEvent(round_number, stats))
       /\ last_stats' = stats
    /\ res' = EngineRes("log_round_start")
    /\ round_snapshot' = agents
    /\ last_sample' = <<>>
    /\ idx' = 1
    /\ pc' = "agents"
    /\ UNCHANGED <<file_exists, crashes, condition, num_rounds, round_number, agents,
                   entropy_history, mem_at_end, summary_file, other_vars>>

\* One agent's turn: context (with a peer sample when the condition and the
\* round call for one), model call (the backend returning one of outcomes),
\* resolution, application, agent_response.
AgentTurnWith(outcomes) ==
    /\ pc = "agents"
    /\ LET a == AgentIds[idx] IN
       /\ IF condition = "C0_INDEPENDENT" \/ round_number = 0
          THEN last_sample' = <<>>
          ELSE \E sampled \in SampleOutcomes(agents, a, SampleK) :
                  last_sample' = sample_peers(agents, a, SampleK, sampled)
       /\ \E outcome \in outcomes :
             LET resolved == Resolve(round_number, agents[a], outcome) IN
             /\ agents' = [agents EXCEPT ![a] = [stance |-> resolved.stance,
                                                 rationale |-> resolved.rationale]]
             /\ log' = _write_event(log, AgentResponseEvent(round_number, a, resolved))
    /\ res' = EngineRes("log_agent_response")
    /\ idx' = idx + 1
    /\ pc' = IF idx = Cardinality(DOMAIN agents) THEN "round_end" ELSE "agents"
    /\ UNCHANGED <<file_exists, crashes, condition, num_rounds, round_number, entropy_history,
                   last_stats, round_snapshot, mem_at_end, summary_file, other_vars>>

AgentTurn == AgentTurnWith(ModelOutcomes)

\* mem_at_end with the agents of round r as they are now.
Remember(r) ==
    [x \in (DOMAIN mem_at_end) \cup {r} |-> IF x = r THEN agents ELSE mem_at_end[x]]

\* After all agents: distribution, entropy, round_end.
RoundEnd ==
    /\ pc = "round_end"
    /\ LET stats == get_stance_distribution(agents)
           entropy == calculate_entropy(stats)
       IN  /\ log' = _write_event(log, RoundEndEvent(round_number, stats, entropy))
           /\ last_stats' = stats
           /\ entropy_history' = Append(entropy_history, entropy)
    /\ res' = EngineRes("log_round_end")
    /\ mem_at_end' = Remember(round_number)
    /\ round_number' = round_number + 1
    /\ pc' = IF round_number + 1 = num_rounds THEN "finish" ELSE "round_start"
    /\ UNCHANGED <<file_exists, crashes, condition, num_rounds, idx, agents, last_sample,
                   round_snapshot, summary_file, other_vars>>

\* After the round loop: experiment_end with the summary.
Finish ==
    /\ pc = "finish"
    /\ LET stats == get_stance_distribution(agents) IN
       log' = _write_event(log, ExperimentEndEvent(stats, calculate_entropy(stats),
                                                   entropy_history))
    /\ summary_file' = SummaryWritten([experiment_id |-> "exp"])
    /\ res' = EngineRes("log_experiment_end")
    /\ pc' = "done"
    /\ UNCHANGED <<file_exists, crashes, condition, num_rounds, round_number, idx, agents,
                   entropy_history, last_stats, last_sample, round_snapshot, mem_at_end,
                   other_vars>>

\* The process is gone: what it held in memory is lost.
Down ==
    /\ pc' = "down"
    /\ crashes' = crashes + 1
    /\ res' = Res("crash", FALSE, NoneResult, -1, TRUE, <<>>)
    /\ round_number' = 0
    /\ idx' = 1
    /\ agents' = NoAgents
    /\ entropy_history' = <<>>
    /\ last_stats' = NoStats
    /\ last_sample' = <<>>
    /\ round_snapshot' = NoAgents
    /\ UNCHANGED <<file_exists, condition, num_rounds, summary_file, other_vars>>

\* The run is interrupted between two events.
Interrupt ==
    /\ pc \in {"round_start", "agents", "round_end", "finish"}
    /\ crashes < MaxCrashes
    /\ Down
    /\ UNCHANGED <<log, mem_at_end>>

\* The run is interrupted inside the write of round_start: the line is cut.
InterruptInRoundStart ==
    /\ pc = "round_start"
    /\ crashes < MaxCrashes
    /\ log' = AppendText(log, Piece(RoundStartEvent(round_number,
                                        get_stance_distribution(agents)), FALSE), FALSE)
    /\ Down
    /\ UNCHANGED mem_at_end

\* The run is interrupted inside the write of round_end: the line is cut, or
\* only its newline is missing.
InterruptInRoundEnd ==
    /\ pc = "round_end"
    /\ crashes < MaxCrashes
    /\ \E whole \in BOOLEAN :
          LET stats == get_stance_distribution(agents) IN
          /\ log' = AppendText(log, Piece(RoundEndEvent(round_number, stats,
                                              calculate_entropy(stats)), whole), FALSE)
          /\ mem_at_end' = IF whole THEN Remember(round_number) ELSE mem_at_end
    /\ Down

\* On start, resuming: the last complete round is looked up, the agents are
\* seeded from it, the log is truncated to it and the run goes on with the
\* next round; without a complete round the run is abandoned.
Resume ==
    /\ pc = "down"
    /\ LET found == find_last_complete_round(file_exists, log)
           out   == truncate_log_to_round(file_exists, log, found.last_round)
       IN  IF found.is_none \/ ~out.ok
           THEN /\ pc' = "aborted"
                /\ res' = Res("resume", FALSE, found, found.last_round, file_exists, log)
                /\ UNCHANGED <<log, agents, round_number>>
           ELSE /\ agents' = Reconstruct(found.agent_states)
                /\ log' = out.file
                /\ round_number' = found.last_round + 1
                /\ pc' = IF found.last_round + 1 >= num_rounds THEN "finish"
                         ELSE "round_start"
                /\ res' = Res("resume", TRUE, found, found.last_round, file_exists, log)
    /\ UNCHANGED <<file_exists, crashes, condition, num_rounds, idx, entropy_history, last_stats,
                   last_sample, round_snapshot, mem_at_end, summary_file, other_vars>>

NextEngine ==
    \/ StartExperiment
    \/ RoundStart
    \/ AgentTurn
    \/ RoundEnd
    \/ Finish
    \/ Interrupt
    \/ InterruptInRoundStart
    \/ InterruptInRoundEnd
    \/ Resume

SpecEngine == InitEngine /\ [][NextEngine]_vars

\* =============== a run in which no model response is parsed ===============
\* The run: five agents, a budget of three rounds, C0_INDEPENDENT.
RunAgents == {AgentIds[i] : i \in 1..5}
RunConfig == [condition |-> "C0_INDEPENDENT", num_rounds |-> 3]

\* The state the population is seeded with before round 0: an agent has no
\* stance yet, or the stance drawn for it from the scenario's initial bias.
SeededStates == {Unset} \cup {[stance |-> s, rationale |-> ""] : s \in Stances}

\* What the backend returns when parse_success is false: nothing parseable,
\* or an object whose stance is outside the scenario's set.
UnparsedOutcomes == {o \in ModelOutcomes : ~o.parsed \/ o.stance \notin Stances}

InitUnparsedRun ==
    /\ file_exists = FALSE
    /\ log = <<>>
    /\ res = NoRes
    /\ crashes = 0
    /\ pc = "new"
    /\ condition = RunConfig.condition
    /\ num_rounds = RunConfig.num_rounds
    /\ round_number = 0
    /\ idx = 1
    /\ agents \in [RunAgents -> SeededStates]
    /\ entropy_history = <<>>
    /\ last_stats = NoStats
    /\ last_sample = <<>>
    /\ round_snapshot = agents
    /\ mem_at_end = <<>>
    /\ summary_file = NoSummaryFile
    /\ ClientOff
    /\ WorkersOff
    /\ PureOff

UnparsedAgentTurn == AgentTurnWith(UnparsedOutcomes)

NextUnparsedRun ==
    \/ StartExperiment
    \/ RoundStart
    \/ UnparsedAgentTurn
    \/ RoundEnd
    \/ Finish

SpecUnparsedRun == InitUnparsedRun /\ [][NextUnparsedRun]_vars

\* ======================= properties of the resume utilities ==============
\* The lines of a file that hold one whole event of the given type.
EventLines(lines, type) ==
    {i \in 1..Len(lines) : JsonLoads(lines[i]) /\ Data(lines[i]).type = type}

\* The rounds that have a round_end event line in the file.
RoundsWithEnd(lines) == {Data(lines[i]).round : i \in EventLines(lines, "round_end")}

\* The round_end lines of round r, and the agent_response lines of (r, a).
EndLines(lines, r) == {i \in EventLines(lines, "round_end") : Data(lines[i]).round = r}
ResponseLines(lines, r, a) ==
    {i \in EventLines(lines, "agent_response") :
        Data(lines[i]).round = r /\ Data(lines[i]).agent_id = a}

C2_LastWriteWins ==
    (res.op = "find" /\ ~res.is_none) =>
        \A a \in LogAgents :
            LET ls == ResponseLines(res.before, res.last_round, a) IN
            /\ (a \in DOMAIN res.agent_states) <=> (ls # {})
            /\ ls # {} =>
                 /\ res.agent_states[a].stance = Data(res.before[Largest(ls)]).stance
                 /\ res.agent_states[a].rationale = Data(res.before[Largest(ls)]).rationale

\* C2, its case: two agent_response lines of one (round, agent) that disagree.
C2_Witness ==
    /\ res.op = "find" /\ ~res.is_none
    /\ \E a \in LogAgents :
          \E i, j \in ResponseLines(log, res.last_round, a) :
              i < j /\ Data(log[i]).stance # Data(log[j]).stance

C4_TruncatePrefix ==
    (res.op = "truncate" /\ res.before_exists /\ EndLines(res.before, res.target) # {}) =>
        /\ res.ok
        /\ file_exists
        /\ log = SubSeq(res.before, 1, Smallest(EndLines(res.before, res.target)))

\* C4, its case: lines after the round_end of target_round were discarded.
C4_Witness ==
    /\ res.op = "truncate" /\ res.ok
    /\ Len(log) >= 2 /\ Len(log) < Len(res.before)

\* C5: when the log has no round_end line of target_round, or there is no
\* file, truncation reports failure and the file is unchanged.
C5_TruncateMissing ==
    (res.op = "truncate" /\ (~res.before_exists \/ EndLines(res.before, res.target) = {})) =>
        /\ ~res.ok
        /\ log = res.before
        /\ file_exists = res.before_exists

\* C5, its case: a file with a round_end of another round only.
C5_Witness ==
    /\ res.op = "truncate" /\ ~res.ok /\ file_exists
    /\ RoundsWithEnd(log) # {}
    /\ res.target \notin RoundsWithEnd(log)

\* C6: whatever error or crash happens during truncation, the write-back
\* included, a truncation that did not succeed leaves the log as it was.
C6_TruncateFailsSafe ==
    (res.op \in {"truncate", "truncate_cut"} /\ ~res.ok) => log = res.before

\* ========================= properties of the engine ======================
WithStance(ag) == {a \in DOMAIN ag : ag[a].stance # NoStance}

\* C7: every peer entry of a sample rendered in round t shows the stance and
\* the rationale the peer held when round t started.
C7_SampleFromPreviousRound ==
    \A i \in DOMAIN last_sample :
        /\ last_sample[i].stance = round_snapshot[last_sample[i].id].stance
        /\ last_sample[i].rationale = round_snapshot[last_sample[i].id].rationale

\* C8 as stated: the distribution logged at round_start and at round_end sums
\* to the population size.
C8_SumIsPopulation ==
    res.op \in {"log_round_start", "log_round_end"} =>
        SumValues(last_stats) = NumAgents

\* C8 as amended: the distribution logged at round_start and at round_end
\* sums to the number of agents that hold a stance at that moment, which is
\* the population size exactly when no agent is without one; and the
\* fallback never takes a stance away from an agent that held one when the
\* round started.
C8_SumIsAgentsWithStance ==
    /\ res.op \in {"log_round_start", "log_round_end"} =>
          /\ SumValues(last_stats) = Cardinality(WithStance(agents))
          /\ SumValues(last_stats) <= NumAgents
          /\ (SumValues(last_stats) = NumAgents) <=> (WithStance(agents) = Agents)
    /\ pc \in {"agents", "round_end"} =>
          WithStance(round_snapshot) \subseteq WithStance(agents)

\* C8, its case: a round_end logged after a response of that round failed to
\* parse, with the agent still counted under the stance it retained.
C8_Witness ==
    /\ res.op = "log_round_end"
    /\ SumValues(last_stats) = NumAgents
    /\ \E i \in EventLines(log, "agent_response") :
          /\ ~Data(log[i]).parse_success
          /\ Data(log[i]).stance # NoStance
          /\ Data(log[i]).round + 1 = round_number

C10_HistoryAligned ==
    pc \in {"round_start", "agents", "round_end", "finish", "done"} =>
        /\ Len(entropy_history) = round_number
        /\ \A i \in 1..Len(entropy_history) :
              /\ (i - 1) \in DOMAIN mem_at_end
              /\ entropy_history[i] =
                    calculate_entropy(get_stance_distribution(mem_at_end[i - 1]))

\* ========================= properties of the logger ======================
\* f is a prefix of g as text: the lines of f are those g starts with, the
\* last of them possibly continued in g when it had no newline in f.
TextPrefix(f, g) ==
    \/ f = <<>>
    \/ /\ Len(f) <= Len(g)
       /\ \A i \in 1..(Len(f) - 1) : g[i] = f[i]
       /\ LET l == f[Len(f)]
              m == g[Len(f)]
          IN  IF l.nl THEN m = l
              ELSE /\ Len(l.parts) <= Len(m.parts)
                   /\ SubSeq(m.parts, 1, Len(l.parts)) = l.parts

\* The number of newline characters of a file.
NewlineCount(f) == Cardinality({i \in 1..Len(f) : f[i].nl})

LoggerOps == {"__init__", "__init__(resume)", "log_config", "log_round_start",
              "log_agent_response", "log_round_end", "log_experiment_end"}

EventsLogged(op) == IF op = "__init__(resume)" THEN 0 ELSE 1

\* C11: every logger operation only appends: the content of the log before
\* the operation is a prefix of the content after it, and exactly one line
\* (one piece of text, one newline) is added per logged event.
C11_OnlyAppends ==
    res.op \in LoggerOps =>
        /\ TextPrefix(res.before, log)
        /\ PieceCount(log) = PieceCount(res.before) + EventsLogged(res.op)
        /\ NewlineCount(log) = NewlineCount(res.before) + EventsLogged(res.op)

\* A logger operation has appended to a log that already held lines, the last
\* of them left without a newline by a crash.
C11_Witness ==
    /\ res.op = "log_round_end"
    /\ Len(res.before) = 2
    /\ res.before[1].nl
    /\ ~res.before[2].nl
    /\ Len(log) = 2

EventTypes == {"experiment_start", "config", "round_start", "agent_response",
               "round_end", "experiment_end"}

\* C12: every event line of the log carries a type tag of the closed set and
\* a timestamp, whatever payload the logger operation was given.
C12_TypeAndTimestamp ==
    \A i \in 1..Len(log) :
        JsonLoads(log[i]) =>
            /\ Data(log[i]).type \in EventTypes
            /\ Data(log[i]).timestamp = "ts"

\* C13: once log_round_end(r) has returned, a crash of the process or of the
\* machine leaves the round_end line of round r in the log.
C13_RoundEndDurable ==
    res.op \in {"crash", "machine_crash"} =>
        RoundsWithEnd(res.before) \subseteq RoundsWithEnd(log)

\* C14: the summary file either does not exist or holds the whole summary.
C14_SummaryAtomic ==
    summary_file.exists => summary_file.whole

\* C15: when the workers of a round log concurrently, every line of the log
\* is one whole event and no event is lost: once all workers are done, each
\* worker's agent_response is on exactly one line.
C15_AppendsSerialized ==
    (\A w \in Workers : wpc[w] = "done") =>
        /\ \A i \in 1..Len(log) : JsonLoads(log[i])
        /\ \A w \in Workers :
              Cardinality({i \in 1..Len(log) : JsonLoads(log[i])
                                               /\ Data(log[i]) = WorkerEvent(w)}) = 1

\* ======================== properties of the model call ===================
\* The call reached the return inside the try block: the backend answered
\* and the answer held a text (or none) under "response".
TransportSuccess(outcome) == ExceptionsOf(outcome) = {"none"}

Failed(cs) == {i \in 1..Len(cs) : ~TransportSuccess(cs[i])}

\* C16: a model call never aborts the round: whatever the backend does on
\* each attempt, generate raises nothing and returns a result record whose
\* success is true or false.
C16_NeverRaises ==
    /\ cpc # "raised"
    /\ cpc = "returned" =>
          /\ {"response", "parsed", "success", "attempt"} \subseteq DOMAIN result
          /\ result.success \in BOOLEAN

\* generate has returned after a body that was no object, a response that was
\* no text and a body that was not JSON.
C16_Witness ==
    /\ cpc = "returned"
    /\ Len(calls) = 3
    /\ calls[1].kind = "not_object"
    /\ calls[2].response = NonString
    /\ calls[3].kind = "not_json"

\* C17: generate issues at most max_retries calls, none after a call that
\* succeeded at the transport level, stops only at such a call or after
\* max_retries calls, and the attempt field of the result is the number of
\* calls issued.
C17_CallsBounded ==
    /\ Len(calls) <= max_retries
    /\ \A i \in 1..(Len(calls) - 1) : ~TransportSuccess(calls[i])
    /\ cpc = "loop" => Failed(calls) = 1..Len(calls)
    /\ cpc = "returned" =>
          /\ result.attempt = Len(calls)
          /\ \/ Len(calls) = max_retries
             \/ calls # <<>> /\ TransportSuccess(calls[Len(calls)])

\* generate has returned at the second of three allowed calls, the first one
\* having failed.
C17_Witness ==
    /\ cpc = "returned"
    /\ max_retries = 3
    /\ Len(calls) = 2
    /\ TransportSuccess(calls[2])
    /\ result.attempt = 2

\* C18: the wait after the failed attempt n (counted from 1) is
\* retry_delay * n; there is a wait between every two consecutive attempts
\* and none after the last attempt or after a successful one.
C18_LinearBackoff ==
    /\ \A n \in 1..Len(sleeps) : sleeps[n] = retry_delay * n
    /\ Len(sleeps) = Min(Cardinality(Failed(calls)), Largest({0, max_retries - 1}))

\* Three attempts have failed with a retry_delay of 2: two waits, the second
\* twice the first.
C18_Witness ==
    /\ cpc = "returned"
    /\ retry_delay = 2
    /\ Cardinality(Failed(calls)) = 3
    /\ sleeps = <<2, 4>>

\* The descriptions the except clauses give of an attempt's error.
DescriptionsOf(outcome) == {Description(exc, outcome) : exc \in ExceptionsOf(outcome)}

\* C19: when every one of the max_retries attempts fails at the transport
\* level, the result has success false, no raw text, no parsed object,
\* attempt = max_retries and the description of the last attempt's error.
C19_TerminalFailure ==
    (cpc = "returned" /\ calls # <<>> /\ Failed(calls) = 1..Len(calls)) =>
        /\ result.success = FALSE
        /\ result.response = PyNone
        /\ result.parsed = PyNone
        /\ result.attempt = max_retries
        /\ result.error \in DescriptionsOf(calls[Len(calls)])
        /\ result.error # NoError

\* Three attempts have failed, the first and the last with different errors.
C19_Witness ==
    /\ cpc = "returned"
    /\ Len(calls) = 3
    /\ Failed(calls) = {1, 2, 3}
    /\ calls[1].kind = "Timeout"
    /\ calls[3].kind = "ConnectionError"

StepValue(n) ==
    LET candidate == CASE n = 1 -> response_text
                       [] n = 2 -> JsonFenceGroup(response_text)
                       [] n = 3 -> AnyFenceGroup(response_text)
                       [] OTHER -> BraceGroup(response_text)
    IN  IF candidate = NoMatch THEN JSONDecodeError ELSE json_loads(candidate)

StepParses(n) == StepValue(n) # JSONDecodeError
FirstParsingStep(n) == StepParses(n) /\ \A m \in 1..(n - 1) : ~StepParses(m)

\* C21: the extraction tries the four steps in their fixed order and returns
\* the value of the first step that parses (none when that value is JSON
\* null); when all four steps fail it returns none.
C21_FirstParsingStep ==
    extracted # NotExtracted =>
        /\ \A n \in 1..4 : FirstParsingStep(n) => extracted = StepValue(n)
        /\ (\A n \in 1..4 : ~StepParses(n)) => extracted = PyNone

\* C21 as stated: moreover the result is none only when all four steps fail.
C21_NoneOnlyWhenAllFail ==
    /\ C21_FirstParsingStep
    /\ (extracted = PyNone) => \A n \in 1..4 : ~StepParses(n)

\* A fenced value is returned although the brace step would have yielded
\* another value.
C21_Witness ==
    /\ extracted \notin {NotExtracted, PyNone}
    /\ FirstParsingStep(3)
    /\ StepParses(4)
    /\ StepValue(4) # extracted

\* The position of the brace closing the one at j (depth levels are open
\* before j), 0 when it is never closed.
RECURSIVE CloseOf(_, _, _)
CloseOf(text, j, depth) ==
    IF j > Len(text) THEN 0
    ELSE LET d == depth + (CASE text[j] = "{" -> 1 [] text[j] = "}" -> -1 [] OTHER -> 0)
         IN  IF d = 0 THEN j ELSE CloseOf(text, j + 1, d)

\* The first balanced brace-delimited object of the text.
FirstBalancedObject(text) ==
    LET opens == {i \in 1..Len(text) : text[i] = "{" /\ CloseOf(text, i, 0) # 0} IN
    IF opens = {} THEN NoMatch
    ELSE SubSeq(text, Smallest(opens), CloseOf(text, Smallest(opens), 0))

\* Every brace of the text belongs to a balanced brace-delimited object:
\* no brace closes what was not opened (open is the depth before from) and
\* none stays open.
RECURSIVE WellNested(_, _, _)
WellNested(text, from, open) ==
    IF from > Len(text) THEN open = 0
    ELSE LET d == open + (CASE text[from] = "{" -> 1 [] text[from] = "}" -> -1
                          [] OTHER -> 0)
         IN  d >= 0 /\ WellNested(text, from + 1, d)

\* C22: when the first three steps fail, the candidate of the brace step is
\* the first balanced brace-delimited object of the text, also in a text
\* that holds several such objects, and its value is what the extraction
\* returns.
C22_FirstBalancedObject ==
    ( /\ extracted # NotExtracted
      /\ \A n \in 1..3 : ~StepParses(n)
      /\ WellNested(response_text, 1, 0)
      /\ FirstBalancedObject(response_text) # NoMatch
      /\ json_loads(FirstBalancedObject(response_text)) # JSONDecodeError ) =>
        extracted = json_loads(FirstBalancedObject(response_text))

\* ------------------------------------------------------- peer sampling
SampleIds == {sample_result[i].id : i \in DOMAIN sample_result}
OtherAgents == (DOMAIN SamplePopulation(sample_call.size)) \ {sample_call.current_agent_id}

\* C23: sample_peers returns exactly min(k, population size - 1) peers, all
\* distinct, none of them the invoking agent; with k at or above the
\* population size minus one it returns every other agent.
C23_SampleSize ==
    sample_count > 0 =>
        /\ Len(sample_result) = Min(sample_call.k, sample_call.size - 1)
        /\ Cardinality(SampleIds) = Len(sample_result)
        /\ SampleIds \subseteq OtherAgents
        /\ sample_call.k >= sample_call.size - 1 => SampleIds = OtherAgents

\* A call that asks for fewer peers than there are, and one that asks for
\* more.
C23_Witness ==
    /\ sample_count > 1
    /\ first_sample.call.k > first_sample.call.size - 1
    /\ first_sample.call.size > 1
    /\ sample_call.k > 0
    /\ sample_call.k < sample_call.size - 1

\* C24: the list sample_peers returns is in ascending order of agent id.
C24_SortedById ==
    \A i, j \in DOMAIN sample_result :
        i < j => IdRank(sample_result[i].id) < IdRank(sample_result[j].id)

\* Two or more peers are returned.
C24_Witness ==
    /\ sample_count > 0
    /\ Len(sample_result) >= 2

\* C25: with a seed, a call with the arguments of the first call returns what
\* the first call returned, whatever calls were made in between.
C25_SeedDeterminism ==
    ( /\ sample_count > 1
      /\ sample_call = first_sample.call
      /\ sample_call.seed.given ) =>
        sample_result = first_sample.result

\* The third call repeats the seeded first one after the shared generator
\* has moved on.
C25_Witness ==
    /\ sample_count = 3
    /\ sample_call = first_sample.call
    /\ sample_call.seed.given
    /\ Len(sample_result) > 0
    /\ Len(sample_result) < sample_call.size - 1
    /\ global_rng # 0

\* ---------------------------------------------------------------- entropy
NonzeroStances == {s \in DOMAIN stance_counts : stance_counts[s] # 0}

\* C26: the entropy is never negative, and it is 0 exactly when at most one
\* stance has a nonzero count (one stance, or none: the empty mapping and
\* the mappings whose counts are all zero).
C26_ZeroIffAtMostOneStance ==
    entropy_value # NotComputed =>
        /\ entropy_value.raised = ""
        /\ entropy_value.value >= 0
        /\ entropy_value.value = 0 <=> Cardinality(NonzeroStances) <= 1

\* C26 as stated: the entropy is 0 exactly when one stance has a nonzero
\* count.
C26_ZeroIffExactlyOneStance ==
    entropy_value # NotComputed =>
        /\ entropy_value.value >= 0
        /\ entropy_value.value = 0 <=> Cardinality(NonzeroStances) = 1

\* An entropy above one bit for three stances held.
C26_Witness ==
    /\ entropy_value # NotComputed
    /\ Cardinality(NonzeroStances) = 3
    /\ entropy_value.value > 1024

\* C29: calculate_entropy returns 0 when the counts add up to 0, a stance
\* with count 0 does not change the result, and nothing is raised (no
\* division by zero, no logarithm of zero).
C29_ZeroTotal ==
    entropy_value # NotComputed =>
        /\ entropy_value.raised = ""
        /\ SumValues(stance_counts) = 0 => entropy_value.value = 0
        /\ entropy_value.value
             = calculate_entropy([s \in NonzeroStances |-> stance_counts[s]])

\* A distribution with a zero count next to nonzero ones, or with nothing but
\* zero counts.
C29_Witness ==
    /\ entropy_value # NotComputed
    /\ \E s \in DOMAIN stance_counts : stance_counts[s] = 0
    /\ Cardinality(DOMAIN stance_counts) = 3
    /\ Cardinality(NonzeroStances) \in {0, 2}

\* ------------------------------------------------------ time to collapse
\* The round indexes i whose window of consecutive_rounds values, all within
\* the history, has no value above the threshold.
CollapsedWindows ==
    LET h == collapse_call.entropy_history
        w == collapse_call.consecutive_rounds
    IN  {i \in 0..(Len(h) - 1) :
            /\ i + w <= Len(h)
            /\ \A n \in (i + 1)..(i + w) : h[n] <= collapse_call.threshold_absolute}

\* C27: time_to_collapse returns the smallest round index i such that every
\* value of the window of consecutive_rounds values starting at i is at or
\* below the threshold, and none when there is no such window.
C27_SmallestWindow ==
    collapse_result.returned =>
        IF CollapsedWindows = {} THEN collapse_result = NoCollapse
        ELSE collapse_result = Returned(Smallest(CollapsedWindows))

\* The history 1.0, 0.9, 0.4, 0.3, 0.2 with threshold 0.469 and window 2
\* yields 2.
C27_Witness ==
    /\ collapse_call = [entropy_history |-> <<1000, 900, 400, 300, 200>>,
                        threshold_absolute |-> DefaultThreshold,
                        consecutive_rounds |-> DefaultWindow]
    /\ collapse_result = Returned(2)

\* C30: a collapse is reported only for a full window: the values from the
\* returned index on number at least consecutive_rounds and the first
\* consecutive_rounds of them are at or below the threshold; a history
\* shorter than the window yields none.
C30_FullWindowOnly ==
    LET h == collapse_call.entropy_history
        w == collapse_call.consecutive_rounds
    IN  collapse_result.returned =>
            /\ ~collapse_result.is_none =>
                   /\ collapse_result.index + w <= Len(h)
                   /\ \A n \in 1..w :
                         h[collapse_result.index + n] <= collapse_call.threshold_absolute
            /\ Len(h) < w => collapse_result.is_none

\* A history that ends with fewer low values than the window asks for: none
\* is returned.
C30_Witness ==
    LET h == collapse_call.entropy_history
        w == collapse_call.consecutive_rounds
    IN  /\ collapse_result = NoCollapse
        /\ w = 3
        /\ Len(h) >= w
        /\ h[Len(h)] <= collapse_call.threshold_absolute
        /\ h[Len(h) - 1] <= collapse_call.threshold_absolute
        /\ h[Len(h) - 2] > collapse_call.threshold_absolute

\* ------------------------------------------- the run without a parse
\* C28: in the 5-agent, 3-round run under C0_INDEPENDENT in which every model
\* response has parse_success = false, the entropy history of the finished
\* run has 3 values, all equal to the entropy of round 0; the distribution is
\* the same at every round_end; and no agent_response is recorded with the
\* change reason INFORMATIONAL, NORMATIVE or UNCERTAINTY.
C28_UnparsedRun ==
    (\A i \in EventLines(log, "agent_response") : ~Data(log[i]).parse_success) =>
        /\ pc = "done" => Len(entropy_history) = 3
        /\ \A i \in DOMAIN entropy_history : entropy_history[i] = entropy_history[1]
        /\ \A i, j \in EventLines(log, "round_end") :
              /\ Data(log[i]).stats = Data(log[j]).stats
              /\ Data(log[i]).entropy = entropy_history[1]
        /\ \A i \in EventLines(log, "agent_response") :
              Data(log[i]).change_reason
                \notin {"INFORMATIONAL", "NORMATIVE", "UNCERTAINTY"}

\* The run is finished: fifteen responses, none parsed, three round_end
\* events, for a population seeded with both stances.
C28_Witness ==
    /\ pc = "done"
    /\ condition = "C0_INDEPENDENT"
    /\ Cardinality(EventLines(log, "agent_response")) = 15
    /\ \A i \in EventLines(log, "agent_response") : ~Data(log[i]).parse_success
    /\ Cardinality(EventLines(log, "round_end")) = 3
    /\ Len(entropy_history) = 3
    /\ entropy_history[1] > 0

\* C31: time_to_collapse is stable under extension of the history: once it
\* has returned an index for a history, it returns the same index for every
\* history obtained by appending further values.
C31_StableUnderExtension ==
    ( /\ collapse_result.returned
      /\ ~first_collapse.result.is_none ) =>
        collapse_result = first_collapse.result

\* An index was returned, two more values came, one of them above the
\* threshold, and the index is still returned.
C31_Witness ==
    LET h == collapse_call.entropy_history IN
    /\ collapse_result.returned
    /\ ~first_collapse.result.is_none
    /\ collapse_call.consecutive_rounds = 2
    /\ Len(h) = first_collapse.length + 2
    /\ h[Len(h)] > collapse_call.threshold_absolute
    /\ collapse_result = first_collapse.result

\* ------------------------------------------- truncation and the replay
\* What find_last_complete_round returned, or would return, for a file.
Found(exists, lines) ==
    LET found == find_last_complete_round(exists, lines) IN
    [is_none |-> found.is_none, last_round |-> found.last_round,
     agent_states |-> found.agent_states]

\* C32: when find_last_complete_round returns (r, states) for a log and the
\* truncation of the log to r succeeds, find_last_complete_round returns the
\* same r and the same states for the truncated log, also when the log holds
\* several agent_response or round_end events of round r.
C32_TruncationKeepsResume ==
    ( /\ res.op = "truncate"
      /\ res.ok
      /\ ~Found(res.before_exists, res.before).is_none
      /\ Found(res.before_exists, res.before).last_round = res.target ) =>
        Found(file_exists, log) = Found(res.before_exists, res.before)

\* C33: after a successful truncation to round r a second truncation to r
\* succeeds and leaves the log as it is.
C33_TruncateIdempotent ==
    (res.op = "truncate" /\ res.ok) =>
        truncate_log_to_round(file_exists, log, res.target) = [ok |-> TRUE, file |-> log]

\* A successful truncation of a log that a truncation had cut before: lines
\* were cut off once, and nothing is cut off the second time.
C33_Witness ==
    /\ res.op = "truncate"
    /\ res.ok
    /\ res.before = log
    /\ Len(log) >= 2
    /\ Data(log[Len(log)]).round = res.target

\* A line that is a well-formed event: it loads, as an object, and if it is a
\* round_end its round is a number.
WellFormedLine(line) ==
    /\ JsonLoads(line)
    /\ Data(line).type \notin {"<not an object>", "<round_end without round>"}

\* C34: find_last_complete_round skips every line that is no well-formed
\* event (a cut line, a JSON value that is no object, a round_end without a
\* numeric round): it returns what it returns for the log without those
\* lines.
C34_SkipsMalformedLines ==
    res.op = "find" =>
        [is_none |-> res.is_none, last_round |-> res.last_round,
         agent_states |-> res.agent_states]
          = Found(res.before_exists, SelectSeq(res.before, WellFormedLine))

\* ------------------------------------------------ payloads of the logger
\* The event the last logger operation wrote: the last piece of text of the
\* file.
LastWritten == log[Len(log)].parts[Len(log[Len(log)].parts)].ev

\* C35: the event log_agent_response(round, agent_id, response) writes has
\* the type agent_response, the round and agent_id of the arguments and the
\* logger's timestamp, whatever keys the response holds; and the events of
\* log_config and log_experiment_end have the types config and
\* experiment_end whatever keys their payloads hold.
C35_PayloadKeepsEventKeys ==
    /\ res.op = "log_agent_response" =>
          /\ LastWritten.type = "agent_response"
          /\ LastWritten.round = 0
          /\ LastWritten.agent_id = "a1"
          /\ LastWritten.timestamp = "ts"
    /\ res.op = "log_config" => LastWritten.type = "config"
    /\ res.op = "log_experiment_end" => LastWritten.type = "experiment_end"

\* C36: after a fresh start of the logger on a log no crash has touched, the
\* log holds exactly one experiment_start event and it is the first line:
\* no event of an earlier run with the same id stays in front of it.
C36_OneExperimentStartFirst ==
    (res.op = "__init__" /\ crashes = 0) =>
        /\ Cardinality(EventLines(log, "experiment_start")) = 1
        /\ 1 \in EventLines(log, "experiment_start")

====
